---------------------------- MODULE Spec2Model ----------------------------
(***************************************************************************)
(* Model of mike_bin.py: the wrapper that prepends a directory to PATH,    *)
(* replaces mike.mkdocs_utils.version / mike.mkdocs_utils.build by         *)
(* override_version / override_build, and runs mike.driver.main().         *)
(*                                                                         *)
(* Conventions.  A Python str is a sequence of one-character strings when  *)
(* the program looks inside it (the child's standard output) and a TLA+    *)
(* string when it is only passed on.  An optional value (None or a value)  *)
(* is the empty sequence or a one-element sequence.  An environment is a   *)
(* function from the names of the variables that are set to their values;  *)
(* PATH's value is the sequence of its ':'-separated entries.              *)
(***************************************************************************)
EXTENDS Naturals, Sequences, FiniteSets

VARIABLES
    pc,          \* position in the __main__ block (lines 72-79)
    environ,     \* os.environ of the wrapper process
    cwd,         \* os.getcwd()
    scriptDir,   \* the folder that holds this script and update_docs
    hooks,       \* mike.mkdocs_utils.version / .build: what each name is bound to
    call,        \* the latest hook call the driver made, with its child process
    ncalls,      \* number of hook calls the driver has made
    exc,         \* the exception propagating in the process, None if none
    ret,         \* what mike.driver.main() returned, None if it has not returned
    exitCode     \* the process's exit status, None while it runs

vars == <<pc, environ, cwd, scriptDir, hooks, call, ncalls, exc, ret, exitCode>>

-----------------------------------------------------------------------------
(* Bounds of the model. *)

MaxCalls == 2    \* hook calls the driver makes in one run
MaxCode == 2     \* largest integer mike.driver.main() returns

-----------------------------------------------------------------------------
(* Values. *)

None == <<>>
Some(x) == <<x>>

docs_version_var == "MIKE_DOCS_VERSION"

Dirs == {"/repo/docs", "/tmp/elsewhere"}

Paths == {<<"/usr/bin", "/bin">>}

Versions == {"2.0.0", "dev", "build"}

ConfigFiles == {None, Some(""), Some("cfg.yml"), Some("2.0.0")}

Outputs == {None, Some("pipe")}

ReturnValues == {None} \cup {Some(n) : n \in 0..MaxCode}

(* The environments the wrapper can be started in: PATH set or not, the    *)
(* version variable already set or not, and one unrelated variable.        *)
Environments ==
    { [v \in ({"HOME"} \cup pv \cup vv) |->
          IF v = "PATH" THEN p ELSE IF v = docs_version_var THEN old ELSE "/home/u"] :
        pv \in {{}, {"PATH"}}, vv \in {{}, {docs_version_var}},
        p \in Paths, old \in {"0.9"} }

-----------------------------------------------------------------------------
(* Text: str.rstrip() and re.search of line 47, whose pattern is          *)
(*   start of string, one or more non-whitespace characters, the literal  *)
(*   comma-space-version-space, and group 1: zero or more non-whitespace  *)
(*   characters.                                                          *)

Whitespace == {" ", "\n", "\t"}

IsSpace(c) == c \in Whitespace

NoSpace(s) == \A k \in 1..Len(s) : ~IsSpace(s[k])

RECURSIVE rstrip(_)
rstrip(s) ==
    IF s = <<>> THEN s
    ELSE IF IsSpace(s[Len(s)]) THEN rstrip(SubSeq(s, 1, Len(s) - 1))
    ELSE s

CommaVersion == <<",", " ", "v", "e", "r", "s", "i", "o", "n", " ">>

(* The lengths n >= 1 of a prefix of s that \S+ can match so that the      *)
(* literal ", version " follows it.  ^ anchors at the start of the string  *)
(* (the pattern is compiled without re.MULTILINE).                         *)
NameEnds(s) ==
    { n \in 1..Len(s) :
        /\ NoSpace(SubSeq(s, 1, n))
        /\ n + Len(CommaVersion) <= Len(s)
        /\ SubSeq(s, n + 1, n + Len(CommaVersion)) = CommaVersion }

(* \S*: the longest run of non-whitespace characters of s from position i. *)
RECURSIVE Run(_, _)
Run(s, i) ==
    IF i > Len(s) \/ IsSpace(s[i]) THEN <<>> ELSE <<s[i]>> \o Run(s, i + 1)

(* The pattern of mike's own version lookup, quoted on line 38: the same   *)
(* with the program name mkdocs spelled out.                               *)
mkdocs_search(s) ==
    LET name == <<"m", "k", "d", "o", "c", "s">>
        ends == {n \in NameEnds(s) : SubSeq(s, 1, n) = name}
    IN  IF ends = {} THEN None
        ELSE LET n == CHOOSE x \in ends : \A y \in ends : y <= x
             IN  Some(Run(s, n + Len(CommaVersion) + 1))

(* The mutant: the pattern left as mike has it. *)
re_search_mkdocs(s) == mkdocs_search(s)

(* re.search: None, or the match, given by its group 1.  \S+ is greedy:    *)
(* the longest name is tried first.                                        *)
re_search(s) ==
    LET ends == NameEnds(s)
    IN  IF ends = {} THEN None
        ELSE LET n == CHOOSE x \in ends : \A y \in ends : y <= x
             IN  Some(Run(s, n + Len(CommaVersion) + 1))

(* What the child can print on standard output: a first part, a name, a    *)
(* separator, a token and a tail, each well-formed or not.                 *)
Leads == {<<>>, <<"x", "\n">>}
Names == {<<"f", "o", "o">>, <<"a", ",">>, <<>>}
Separators == {CommaVersion, CommaVersion \o <<" ">>,
               SubSeq(CommaVersion, 1, Len(CommaVersion) - 1),
               SubSeq(CommaVersion, 2, Len(CommaVersion))}
Tokens == {<<"1", ".", "2">>, <<"9", "-", "r", "c">>, <<>>}
Tails == {<<>>, <<"\n">>, <<" ", "\n">>}

Stdouts ==
    { l \o n \o s \o t \o e :
        l \in Leads, n \in Names, s \in Separators, t \in Tokens, e \in Tails }

-----------------------------------------------------------------------------
(* Child processes.  A run is what the operating system and the child do   *)
(* with one subprocess.run call: whether the executable could be launched, *)
(* the exit status and the text on standard output.                        *)

NotLaunched == [launched |-> FALSE, status |-> None, stdout |-> <<>>]

FooVersion == <<"f", "o", "o">> \o CommaVersion \o <<"1", ".", "2">>

VersionRuns ==
    {NotLaunched}
    \cup {[launched |-> TRUE, status |-> Some(0), stdout |-> o] : o \in Stdouts}
    \cup {[launched |-> TRUE, status |-> Some(1), stdout |-> o] : o \in {<<>>, FooVersion}}

BuildRuns ==
    {NotLaunched}
    \cup {[launched |-> TRUE, status |-> Some(c), stdout |-> <<>>] : c \in {0, 1, 2}}

(* The mutant: subprocess.run without check=True returns whatever the exit *)
(* status is.                                                              *)
subprocess_run_unchecked(run) ==
    IF ~run.launched THEN "OSError" ELSE "ok"

(* subprocess.run(..., check=True): OSError when the executable cannot be  *)
(* launched, CalledProcessError when it exits non-zero.                    *)
subprocess_run(run) ==
    IF ~run.launched THEN "OSError"
    ELSE IF run.status # Some(0) THEN "CalledProcessError"
    ELSE "ok"

-----------------------------------------------------------------------------
(* The two overrides.  Each is given os.environ and the child's run and    *)
(* yields the child it spawned (argv, env, stdio), how the call ended      *)
(* (outcome, value) and os.environ after the call.                         *)

Truthy(opt) == opt # None /\ opt[1] # ""

(* Lines 41-48. *)
override_version(env, run) ==
    LET r == subprocess_run(run)
        m == re_search(rstrip(run.stdout))
    IN  [argv    |-> <<"update_docs", "--version">>,
         env     |-> env,
         stdio   |-> Some("PIPE"),
         outcome |-> IF r # "ok" THEN r
                     ELSE IF m = None THEN "AttributeError" ELSE "returned",
         value   |-> IF r = "ok" THEN m ELSE None,
         environ |-> env]

(* The mutant: the test "is not None" in place of truthiness, which passes *)
(* an empty path on.                                                       *)
build_command_not_none(config_file, quiet) ==
    <<"update_docs">>
    \o (IF quiet THEN <<"--quiet">> ELSE <<>>)
    \o <<"build", "--clean">>
    \o (IF config_file # None THEN <<"--config-file", config_file[1]>> ELSE <<>>)

(* Lines 59-64. *)
build_command(config_file, quiet) ==
    <<"update_docs">>
    \o (IF quiet THEN <<"--quiet">> ELSE <<>>)
    \o <<"build", "--clean">>
    \o (IF Truthy(config_file) THEN <<"--config-file", config_file[1]>> ELSE <<>>)

(* The mutant: env.setdefault, which keeps a value the variable has. *)
build_env_setdefault(env, version) ==
    [v \in DOMAIN env \cup {docs_version_var} |->
        IF v \in DOMAIN env THEN env[v] ELSE version]

(* Lines 66-67: a copy of os.environ with the version variable set. *)
build_env(env, version) ==
    [v \in DOMAIN env \cup {docs_version_var} |->
        IF v = docs_version_var THEN version ELSE env[v]]

(* The mutant: env = os.environ, no copy, so that line 67 writes the       *)
(* version into the wrapper's own environment.                             *)
override_build_no_copy(env, config_file, version, quiet, output, run) ==
    LET r == subprocess_run(run)
    IN  [argv    |-> build_command(config_file, quiet),
         env     |-> build_env(env, version),
         stdio   |-> output,
         outcome |-> IF r # "ok" THEN r ELSE "returned",
         value   |-> None,
         environ |-> build_env(env, version)]

(* Lines 51-69. *)
override_build(env, config_file, version, quiet, output, run) ==
    LET r == subprocess_run(run)
    IN  [argv    |-> build_command(config_file, quiet),
         env     |-> build_env(env, version),
         stdio   |-> output,
         outcome |-> IF r # "ok" THEN r ELSE "returned",
         value   |-> None,
         environ |-> env]

(* The calls the overrides replace, as the comments of lines 33-39 and     *)
(* 53-57 quote them: the same calls on the executable mkdocs.              *)
mkdocs_version(env, run) ==
    LET r == subprocess_run(run)
        m == mkdocs_search(rstrip(run.stdout))
    IN  [argv    |-> <<"mkdocs", "--version">>,
         env     |-> env,
         stdio   |-> Some("PIPE"),
         outcome |-> IF r # "ok" THEN r
                     ELSE IF m = None THEN "AttributeError" ELSE "returned",
         value   |-> IF r = "ok" THEN m ELSE None,
         environ |-> env]

mkdocs_build(env, config_file, version, quiet, output, run) ==
    LET r == subprocess_run(run)
    IN  [argv    |-> <<"mkdocs">> \o Tail(build_command(config_file, quiet)),
         env     |-> build_env(env, version),
         stdio   |-> output,
         outcome |-> IF r # "ok" THEN r ELSE "returned",
         value   |-> None,
         environ |-> env]

-----------------------------------------------------------------------------
(* The __main__ block and the driver it runs. *)

NoCall ==
    [op |-> "none", impl |-> "none", config_file |-> None, version |-> "",
     quiet |-> FALSE, run |-> NotLaunched,
     argv |-> <<>>, env |-> <<>>, stdio |-> None,
     outcome |-> "none", value |-> None]

Init ==
    /\ pc = "start"
    /\ environ \in Environments
    /\ cwd \in Dirs
    /\ scriptDir \in Dirs
    /\ hooks = [version |-> "original", build |-> "original"]
    /\ call = NoCall
    /\ ncalls = 0
    /\ exc = None
    /\ ret = None
    /\ exitCode = None

(* The f-string of line 75: the directory, a colon, the old PATH. *)
prepend(dir, path) == <<dir>> \o path

(* Line 75.  os.environ['PATH'] raises KeyError when PATH is not set, and  *)
(* the exception leaves the module before any patch is made.               *)
PrependPath ==
    /\ pc = "start"
    /\ IF "PATH" \in DOMAIN environ
       THEN /\ environ' = [environ EXCEPT !["PATH"] = prepend(cwd, @)]
            /\ pc' = "patch_version"
            /\ exc' = exc
       ELSE /\ environ' = environ
            /\ pc' = "finalize"
            /\ exc' = Some("KeyError")
    /\ UNCHANGED <<cwd, scriptDir, hooks, call, ncalls, ret, exitCode>>

(* The mutant: a patch that never binds the build hook. *)
mock_patch_version_only(h, name) ==
    IF name = "version" THEN [h EXCEPT ![name] = "override"] ELSE h

(* mock.patch(target, new).__enter__: bind the name to the replacement. *)
mock_patch(h, name) == [h EXCEPT ![name] = "override"]

(* mock.patch(...).__exit__: bind the name to the original again. *)
mock_unpatch(h, name) == [h EXCEPT ![name] = "original"]

(* Line 77. *)
PatchVersion ==
    /\ pc = "patch_version"
    /\ hooks' = mock_patch(hooks, "version")
    /\ pc' = "patch_build"
    /\ UNCHANGED <<environ, cwd, scriptDir, call, ncalls, exc, ret, exitCode>>

(* Line 78. *)
PatchBuild ==
    /\ pc = "patch_build"
    /\ hooks' = mock_patch(hooks, "build")
    /\ pc' = "driver"
    /\ UNCHANGED <<environ, cwd, scriptDir, call, ncalls, exc, ret, exitCode>>

(* The driver, inside mike.driver.main() (line 79), calls                  *)
(* mike.mkdocs_utils.version(): whatever that name is bound to runs.       *)
DriverCallsVersion(run) ==
    /\ pc = "driver"
    /\ exc = None
    /\ ncalls < MaxCalls
    /\ LET c == IF hooks.version = "override"
                THEN override_version(environ, run)
                ELSE mkdocs_version(environ, run)
       IN  /\ call' = [op |-> "version", impl |-> hooks.version,
                       config_file |-> None, version |-> "", quiet |-> FALSE,
                       run |-> run,
                       argv |-> c.argv, env |-> c.env, stdio |-> c.stdio,
                       outcome |-> c.outcome, value |-> c.value]
           /\ environ' = c.environ
           /\ exc' = IF c.outcome = "returned" THEN None ELSE Some(c.outcome)
    /\ ncalls' = ncalls + 1
    /\ UNCHANGED <<pc, cwd, scriptDir, hooks, ret, exitCode>>

(* The driver calls mike.mkdocs_utils.build(config_file, version,          *)
(* quiet=..., output=...).                                                 *)
DriverCallsBuild(config_file, version, quiet, output, run) ==
    /\ pc = "driver"
    /\ exc = None
    /\ ncalls < MaxCalls
    /\ LET c == IF hooks.build = "override"
                THEN override_build(environ, config_file, version, quiet, output, run)
                ELSE mkdocs_build(environ, config_file, version, quiet, output, run)
       IN  /\ call' = [op |-> "build", impl |-> hooks.build,
                       config_file |-> config_file, version |-> version,
                       quiet |-> quiet, run |-> run,
                       argv |-> c.argv, env |-> c.env, stdio |-> c.stdio,
                       outcome |-> c.outcome, value |-> c.value]
           /\ environ' = c.environ
           /\ exc' = IF c.outcome = "returned" THEN None ELSE Some(c.outcome)
    /\ ncalls' = ncalls + 1
    /\ UNCHANGED <<pc, cwd, scriptDir, hooks, ret, exitCode>>

(* mike.driver.main() returns r and sys.exit(r) raises SystemExit (line    *)
(* 79), which leaves the two with blocks.                                  *)
DriverReturns(r) ==
    /\ pc = "driver"
    /\ exc = None
    /\ ret' = Some(r)
    /\ exc' = Some("SystemExit")
    /\ pc' = "exit_build"
    /\ UNCHANGED <<environ, cwd, scriptDir, hooks, call, ncalls, exitCode>>

(* The exception a hook raised leaves mike.driver.main(): nothing in this  *)
(* file catches it, and the statements after the call in the driver do not *)
(* run.                                                                    *)
DriverRaises ==
    /\ pc = "driver"
    /\ exc # None
    /\ pc' = "exit_build"
    /\ UNCHANGED <<environ, cwd, scriptDir, hooks, call, ncalls, exc, ret, exitCode>>

(* Leaving the with block of line 78. *)
UnpatchBuild ==
    /\ pc = "exit_build"
    /\ hooks' = mock_unpatch(hooks, "build")
    /\ pc' = "exit_version"
    /\ UNCHANGED <<environ, cwd, scriptDir, call, ncalls, exc, ret, exitCode>>

(* Leaving the with block of line 77. *)
UnpatchVersion ==
    /\ pc = "exit_version"
    /\ hooks' = mock_unpatch(hooks, "version")
    /\ pc' = "finalize"
    /\ UNCHANGED <<environ, cwd, scriptDir, call, ncalls, exc, ret, exitCode>>

(* The mutant: main() called without sys.exit, so that the interpreter     *)
(* ends with status 0 whatever main() returned.                            *)
exit_status_dropped(e, r) ==
    IF e = Some("SystemExit") THEN 0 ELSE 1

(* The status the interpreter ends with: SystemExit(None) is 0,            *)
(* SystemExit(n) is n in eight bits, any other exception is 1.             *)
exit_status(e, r) ==
    IF e = Some("SystemExit")
    THEN (IF r[1] = None THEN 0 ELSE r[1][1] % 256)
    ELSE 1

ProcessExit ==
    /\ pc = "finalize"
    /\ exitCode' = Some(exit_status(exc, ret))
    /\ pc' = "exited"
    /\ UNCHANGED <<environ, cwd, scriptDir, hooks, call, ncalls, exc, ret>>

Next ==
    \/ PrependPath
    \/ PatchVersion
    \/ PatchBuild
    \/ \E run \in VersionRuns : DriverCallsVersion(run)
    \/ \E config_file \in ConfigFiles, version \in Versions, quiet \in BOOLEAN,
          output \in Outputs, run \in BuildRuns :
            DriverCallsBuild(config_file, version, quiet, output, run)
    \/ \E r \in ReturnValues : DriverReturns(r)
    \/ DriverRaises
    \/ UnpatchBuild
    \/ UnpatchVersion
    \/ ProcessExit

Spec == Init /\ [][Next]_vars

-----------------------------------------------------------------------------
(* Vocabulary of the properties. *)

Elems(seq) == {seq[k] : k \in 1..Len(seq)}

AllSpace(s) == \A k \in 1..Len(s) : IsSpace(s[k])

Contains(s, lit) ==
    \E k \in 0..Len(s) :
        k + Len(lit) <= Len(s) /\ SubSeq(s, k + 1, k + Len(lit)) = lit

(* The pairs <<n, j>> that cut s into a name s[1..n], the literal, a token *)
(* s[n+11..j] and a tail of whitespace, name and token non-empty and free  *)
(* of whitespace.                                                          *)
VersionLineCuts(s) ==
    { c \in (1..Len(s)) \X (1..Len(s)) :
        LET n == c[1]
            j == c[2]
            t == n + Len(CommaVersion)
        IN  /\ t < j
            /\ NoSpace(SubSeq(s, 1, n))
            /\ SubSeq(s, n + 1, t) = CommaVersion
            /\ NoSpace(SubSeq(s, t + 1, j))
            /\ AllSpace(SubSeq(s, j + 1, Len(s))) }

TokenOf(s, c) == SubSeq(s, c[1] + Len(CommaVersion) + 1, c[2])

ByOverride(op) == call.op = op /\ call.impl = "override"

ChildExitedZero(c) == c.run.launched /\ c.run.status = Some(0)

FixedWords == {"update_docs", "--quiet", "build", "--clean", "--config-file"}

(* The argument vector the specification prescribes for a build request,   *)
(* an empty path counting as no path.                                      *)
PrescribedVector(c) ==
    <<"update_docs">>
    \o (IF c.quiet THEN <<"--quiet">> ELSE <<>>)
    \o <<"build", "--clean">>
    \o (IF c.config_file \in {None, Some("")} THEN <<>>
        ELSE <<"--config-file", c.config_file[1]>>)

VectorAsPrescribed(c) ==
    /\ c.argv = PrescribedVector(c)
    /\ (c.config_file \in {None, Some("")}
          => "--config-file" \notin Elems(c.argv) /\ "" \notin Elems(c.argv))

-----------------------------------------------------------------------------
(* C1, as stated: the argument vector override_build passes to the child   *)
(* is the executable, --quiet if quiet, build, --clean, and --config-file  *)
(* with the path if a path was supplied; without a path it holds neither   *)
(* --config-file nor an empty string; and the version string never appears *)
(* in the vector.                                                          *)
C1_VectorNeverHoldsVersion ==
    ByOverride("build") =>
        VectorAsPrescribed(call) /\ call.version \notin Elems(call.argv)

(* C1, amended: the vector is the prescribed one, which does not depend on *)
(* the version: the version string appears in it only where it equals the  *)
(* config path or one of the fixed words of the command.                   *)
C1_VectorIsPrescribed ==
    ByOverride("build") =>
        /\ VectorAsPrescribed(call)
        /\ (call.version \in Elems(call.argv)
              => call.config_file = Some(call.version) \/ call.version \in FixedWords)

C1_Witness ==
    /\ ByOverride("build")
    /\ call.config_file = Some("cfg.yml") /\ call.version = "2.0.0" /\ call.quiet
    /\ call.argv = <<"update_docs", "--quiet", "build", "--clean", "--config-file", "cfg.yml">>

(* C2: in every build call, the environment handed to the child equals the *)
(* wrapper's environment at the moment of the call on every variable but   *)
(* the version variable, which is set to the request's version whatever    *)
(* value it had.                                                           *)
C2_ChildEnvIsParentPlusVersion ==
    [][(ncalls' # ncalls /\ call'.op = "build" /\ call'.impl = "override") =>
          /\ DOMAIN call'.env = DOMAIN environ \cup {docs_version_var}
          /\ call'.env[docs_version_var] = call'.version
          /\ \A v \in DOMAIN environ \ {docs_version_var} : call'.env[v] = environ[v]]_vars

C2_Witness ==
    /\ ByOverride("build")
    /\ docs_version_var \in DOMAIN environ
    /\ environ[docs_version_var] # call.version
    /\ call.env[docs_version_var] = call.version
    /\ call.env["PATH"] = environ["PATH"]

(* C3: no hook call, successful or failing, changes the wrapper's own      *)
(* environment: the version variable is never written into it, a build's   *)
(* child sees the version of its own request only, and a version query's   *)
(* child sees the wrapper's environment as it was before any build.        *)
C3_ParentEnvUntouched ==
    [][pc = "driver" =>
          /\ environ' = environ
          /\ (ncalls' # ncalls /\ call'.op = "version" => call'.env = environ)
          /\ (ncalls' # ncalls /\ call'.op = "build"
                => call'.env[docs_version_var] = call'.version)]_vars

C3_Witness ==
    /\ ByOverride("build")
    /\ ncalls >= 2
    /\ call.outcome = "CalledProcessError"
    /\ docs_version_var \notin DOMAIN environ
    /\ call.env[docs_version_var] = call.version

(* C4: when the child of the version query exits 0 and prints a name, the  *)
(* literal comma-space-version-space, a token and optional trailing        *)
(* whitespace, name and token being non-empty and free of whitespace,      *)
(* override_version returns exactly the token, whatever the name is.       *)
C4_ReturnsTheToken ==
    (ByOverride("version") /\ ChildExitedZero(call)) =>
        \A c \in VersionLineCuts(call.run.stdout) :
            call.outcome = "returned" /\ call.value = Some(TokenOf(call.run.stdout, c))

C4_Witness ==
    /\ ByOverride("version")
    /\ call.run.stdout = <<"a", ",">> \o CommaVersion \o <<"9", "-", "r", "c", "\n">>
    /\ call.outcome = "returned"
    /\ call.value = Some(<<"9", "-", "r", "c">>)

(* C5: for output that does not contain the literal comma-space-version-   *)
(* space, override_version raises the named error for unparsable version   *)
(* output, never the error of dereferencing a failed match.                *)
C5_UnparsableIsNamedError ==
    (ByOverride("version") /\ ChildExitedZero(call)
       /\ ~Contains(call.run.stdout, CommaVersion))
      => call.outcome = "UnparsableVersionOutput"

(* C6: for both overrides, a child that cannot be launched or that exits   *)
(* non-zero makes the call fail with an error that propagates: no token is *)
(* returned, override_build returns normally exactly when the child exited *)
(* 0, and the driver does nothing further after the failure.               *)
C6_FailurePropagates ==
    [][/\ (ncalls' # ncalls /\ call'.impl = "override") =>
             /\ (~ChildExitedZero(call')) =>
                    /\ call'.outcome = (IF call'.run.launched
                                        THEN "CalledProcessError" ELSE "OSError")
                    /\ call'.value = None
                    /\ exc' = Some(call'.outcome)
             /\ (call'.op = "build" =>
                    (call'.outcome = "returned" <=> ChildExitedZero(call')))
       /\ (call.outcome \notin {"none", "returned"} =>
             call' = call /\ ncalls' = ncalls /\ ret' = ret /\ exc' = exc)]_vars

C6_Witness ==
    /\ ByOverride("build")
    /\ call.run.status = Some(2)
    /\ call.outcome = "CalledProcessError"
    /\ exc = Some("CalledProcessError")
    /\ ret = None
    /\ pc = "exited"

(* C7: while the driver's entry point runs both replacements are           *)
(* installed, never one or none of them, and every call the driver makes   *)
(* to the version or build hook reaches the override, never the original.  *)
C7_BothInstalledWhileDriverRuns ==
    /\ pc = "driver" => hooks.version = "override" /\ hooks.build = "override"
    /\ call.op # "none" => call.impl = "override" /\ call.argv[1] = "update_docs"

C7_Witness ==
    /\ pc = "driver"
    /\ ncalls >= 2
    /\ ByOverride("build")
    /\ hooks = [version |-> "override", build |-> "override"]

(* C8: the process's exit code is the one mike.driver.main() produced when *)
(* it returns (0 for None), and is non-zero whenever a hook failure        *)
(* propagates out of the driver.                                           *)
C8_ExitCodeIsDrivers ==
    pc = "exited" =>
        /\ ret # None => exitCode = Some(IF ret[1] = None THEN 0 ELSE ret[1][1])
        /\ (call.outcome \notin {"none", "returned"}) => exitCode # Some(0) /\ exitCode # None

C8_Witness ==
    /\ pc = "exited"
    /\ ret = Some(Some(2))
    /\ exitCode = Some(2)
    /\ ncalls >= 1

(* C9: every value override_version returns is a non-empty string with no  *)
(* whitespace in it.                                                       *)
C9_TokenNonEmpty ==
    (ByOverride("version") /\ call.outcome = "returned") =>
        /\ call.value # None
        /\ call.value[1] # <<>>
        /\ NoSpace(call.value[1])

(* C10: before the overrides are installed, PATH has been prepended once   *)
(* with the folder of the script, the directory that holds the executable, *)
(* the previous entries following in their order, whatever the current     *)
(* working directory is.                                                   *)
C10_PathStartsWithScriptFolder ==
    (hooks.version = "override" \/ hooks.build = "override" \/ call.op # "none") =>
        /\ "PATH" \in DOMAIN environ
        /\ \E old \in Paths : environ["PATH"] = <<scriptDir>> \o old

=============================================================================
